---- MODULE Spec2Model ----
(***************************************************************************)
(* A model of cirq.qis.CliffordTableau (clifford_tableau.py): the          *)
(* Aaronson-Gottesman stabilizer tableau, its rowsum primitive, its        *)
(* single-qubit measurement, its validator, and its copy / serialization.  *)
(*                                                                         *)
(* Tableau objects own three numpy arrays (_xs, _zs, _rs).  Arrays live in *)
(* `heap` and objects hold their addresses, so that sharing an array       *)
(* between two objects is expressible.                                     *)
(***************************************************************************)
EXTENDS Integers, Sequences, FiniteSets, TLC

VARIABLES
    heap,   \* sequence of numpy arrays; an address is an index into it
    obj,    \* sequence of tableau objects: [n, xs, zs, rs] with addresses
    rec,    \* the last record produced by _json_dict_ (<<>> when none)
    last,   \* the last call made: operation, receiver, arguments, result
    pre,    \* the receiver's arrays before the last _rowsum call (<<>> if none)
    steps   \* number of calls made so far by the arbitrary-update driver

vars == <<heap, obj, rec, last, pre, steps>>

\* ---------------------------------------------------------------- bounds

\* Largest number of qubits of a tableau.
MaxN == 2

\* Largest number of tableau objects alive at once.
MaxObjs == 2

\* Largest number of calls of the arbitrary-update driver.
MaxSteps == 3

\* Largest number of rowsum calls on a tableau with assigned rows.
MaxRowsums == 2

\* ------------------------------------------------------------- utilities

RECURSIVE Pow2(_)
Pow2(k) == IF k = 0 THEN 1 ELSE 2 * Pow2(k - 1)

\* Python's int(bool).
int(b) == IF b THEN 1 ELSE 0

\* Physical row indices of the arrays (the last one, 2n, is the scratch row).
AllRows(n) == 0..(2 * n)

\* Row indices seen through the xs / zs / rs properties (`[:-1]`).
ViewRows(n) == 0..(2 * n - 1)

Qubits(n) == 0..(n - 1)

\* ------------------------------------------------ big_endian_int_to_digits

\* The loop of cirq.value.big_endian_int_to_digits for base 2: the digits
\* least significant first, and what is left of val.
RECURSIVE DigitsLoop(_, _)
DigitsLoop(val, count) ==
    IF count = 0
    THEN [digits |-> <<>>, val |-> val]
    ELSE LET rest == DigitsLoop(val \div 2, count - 1)
         IN  [digits |-> <<val % 2>> \o rest.digits, val |-> rest.val]

RECURSIVE Reverse(_)
Reverse(s) == IF s = <<>> THEN <<>> ELSE Reverse(Tail(s)) \o <<Head(s)>>

\* big_endian_int_to_digits(val, digit_count=..., base=2): ok is FALSE where
\* the function raises ValueError because val does not fit.
big_endian_int_to_digits(val, digit_count) ==
    LET loop == DigitsLoop(val, digit_count)
    IN  [ok |-> loop.val = 0, digits |-> Reverse(loop.digits)]

\* ------------------------------------------------------------ constructor

\* The constructor, were it to write the digits to rows [0, n).
CliffordTableauMisplacedSigns(num_qubits, initial_state) ==
    LET n == num_qubits
        digits == big_endian_int_to_digits(initial_state, num_qubits).digits
    IN  [n  |-> n,
         rs |-> [i \in AllRows(n) |->
                    IF i < n THEN digits[i + 1] # 0 ELSE FALSE],
         xs |-> [i \in AllRows(n) |-> [k \in Qubits(n) |-> i < n /\ k = i]],
         zs |-> [i \in AllRows(n) |->
                    [k \in Qubits(n) |-> i >= n /\ i < 2 * n /\ k = i - n]]]

\* The constructor, were it to take the digits least significant first.
CliffordTableauLittleEndian(num_qubits, initial_state) ==
    LET n == num_qubits
        digits == big_endian_int_to_digits(initial_state, num_qubits).digits
    IN  [n  |-> n,
         rs |-> [i \in AllRows(n) |->
                    IF i >= n /\ i < 2 * n THEN digits[2 * n - i] # 0 ELSE FALSE],
         xs |-> [i \in AllRows(n) |-> [k \in Qubits(n) |-> i < n /\ k = i]],
         zs |-> [i \in AllRows(n) |->
                    [k \in Qubits(n) |-> i >= n /\ i < 2 * n /\ k = i - n]]]

\* CliffordTableau(num_qubits, initial_state): the three arrays as built.
CliffordTableau(num_qubits, initial_state) ==
    LET n == num_qubits
        digits == big_endian_int_to_digits(initial_state, num_qubits).digits
    IN  [n  |-> n,
         rs |-> [i \in AllRows(n) |->
                    IF i >= n /\ i < 2 * n THEN digits[i - n + 1] # 0 ELSE FALSE],
         xs |-> [i \in AllRows(n) |-> [k \in Qubits(n) |-> i < n /\ k = i]],
         zs |-> [i \in AllRows(n) |->
                    [k \in Qubits(n) |-> i >= n /\ i < 2 * n /\ k = i - n]]]

\* ----------------------------------------------------------------- rowsum

\* g, were the two terms of its Y case exchanged.
gSwappedSign(x1, z1, x2, z2) ==
    IF ~x1 /\ ~z1 THEN 0
    ELSE IF x1 /\ z1 THEN int(x2) - int(z2)
    ELSE IF x1 /\ ~z1 THEN int(z2) * (2 * int(x2) - 1)
    ELSE int(x2) * (1 - 2 * int(z2))

\* g, were the factor 2 of its last case dropped.
gDroppedFactor(x1, z1, x2, z2) ==
    IF ~x1 /\ ~z1 THEN 0
    ELSE IF x1 /\ z1 THEN int(z2) - int(x2)
    ELSE IF x1 /\ ~z1 THEN int(z2) * (2 * int(x2) - 1)
    ELSE int(x2) * (1 - int(z2))

\* The phase contribution g of _rowsum.
g(x1, z1, x2, z2) ==
    IF ~x1 /\ ~z1 THEN 0
    ELSE IF x1 /\ z1 THEN int(z2) - int(x2)
    ELSE IF x1 /\ ~z1 THEN int(z2) * (2 * int(x2) - 1)
    ELSE int(x2) * (1 - 2 * int(z2))

\* The loop `for j in range(self.n): r += g(...)` from column j on.
RECURSIVE SumG(_, _, _, _)
SumG(t, q1, q2, j) ==
    IF j = t.n THEN 0
    ELSE g(t.xs[q2][j], t.zs[q2][j], t.xs[q1][j], t.zs[q1][j])
         + SumG(t, q1, q2, j + 1)

\* The residue, were the sign of row q1 left out of it.
rowsumPhaseNoTarget(t, q1, q2) ==
    (2 * int(t.rs[q2]) + SumG(t, q1, q2, 0)) % 4

\* The residue r of _rowsum after `r %= 4`.
rowsumPhase(t, q1, q2) ==
    (2 * int(t.rs[q1]) + 2 * int(t.rs[q2]) + SumG(t, q1, q2, 0)) % 4

\* _rowsum, were it to leave the Z part of row q1 alone.
rowsumKeepsZ(t, q1, q2) ==
    [t EXCEPT !.rs[q1] = (rowsumPhase(t, q1, q2) # 0),
              !.xs[q1] = [k \in Qubits(t.n) |-> t.xs[q1][k] # t.xs[q2][k]]]

\* _rowsum, were the X part written to row q2.
rowsumIntoSource(t, q1, q2) ==
    [t EXCEPT !.rs[q1] = (rowsumPhase(t, q1, q2) # 0),
              !.xs[q2] = [k \in Qubits(t.n) |-> t.xs[q1][k] # t.xs[q2][k]],
              !.zs[q1] = [k \in Qubits(t.n) |-> t.zs[q1][k] # t.zs[q2][k]]]

\* _rowsum, were it to leave the X part of row q1 alone.
rowsumKeepsX(t, q1, q2) ==
    [t EXCEPT !.rs[q1] = (rowsumPhase(t, q1, q2) # 0),
              !.zs[q1] = [k \in Qubits(t.n) |-> t.zs[q1][k] # t.zs[q2][k]]]

\* _rowsum(q1, q2) on the arrays t.
rowsum(t, q1, q2) ==
    [t EXCEPT !.rs[q1] = (rowsumPhase(t, q1, q2) # 0),
              !.xs[q1] = [k \in Qubits(t.n) |-> t.xs[q1][k] # t.xs[q2][k]],
              !.zs[q1] = [k \in Qubits(t.n) |-> t.zs[q1][k] # t.zs[q2][k]]]

\* ---------------------------------------------------------------- measure

\* The scan of _measure: the stabilizer rows with an X on qubit q.
Anticommuting(t, q) == {i \in (t.n)..(2 * t.n - 1) : t.xs[i][q]}

is_commuting(t, q) == Anticommuting(t, q) = {}

\* The row p the scan breaks at.
Pivot(t, q) == CHOOSE p \in Anticommuting(t, q) :
                   \A i \in Anticommuting(t, q) : p <= i

\* The scratch row reset of the commuting branch.
ResetScratch(t) ==
    [t EXCEPT !.xs[2 * t.n] = [k \in Qubits(t.n) |-> FALSE],
              !.zs[2 * t.n] = [k \in Qubits(t.n) |-> FALSE],
              !.rs[2 * t.n] = FALSE]

\* The commuting loop, were it to add the destabilizer row i itself.
RECURSIVE CommutingLoopDestabilizers(_, _, _)
CommutingLoopDestabilizers(t, q, i) ==
    IF i = t.n THEN t
    ELSE CommutingLoopDestabilizers(
             IF t.xs[i][q] THEN rowsum(t, 2 * t.n, i) ELSE t,
             q, i + 1)

\* The commuting loop, were it to take row 2n - 1 for the scratch row.
RECURSIVE CommutingLoopLastRow(_, _, _)
CommutingLoopLastRow(t, q, i) ==
    IF i = t.n THEN t
    ELSE CommutingLoopLastRow(
             IF t.xs[i][q] THEN rowsum(t, 2 * t.n - 1, t.n + i) ELSE t,
             q, i + 1)

\* `for i in range(self.n): if self.xs[i, q]: self._rowsum(2n, n + i)`
RECURSIVE CommutingLoop(_, _, _)
CommutingLoop(t, q, i) ==
    IF i = t.n THEN t
    ELSE CommutingLoop(IF t.xs[i][q] THEN rowsum(t, 2 * t.n, t.n + i) ELSE t,
                       q, i + 1)

\* The elimination loop, were it to run over the destabilizer rows only.
RECURSIVE EliminationLoopDestabilizersOnly(_, _, _, _)
EliminationLoopDestabilizersOnly(t, q, p, i) ==
    IF i = t.n THEN t
    ELSE EliminationLoopDestabilizersOnly(
             IF i # p /\ t.xs[i][q] THEN rowsum(t, i, p) ELSE t,
             q, p, i + 1)

\* The elimination loop, were it to run over the stabilizer rows only.
RECURSIVE EliminationLoopStabilizersOnly(_, _, _, _)
EliminationLoopStabilizersOnly(t, q, p, i) ==
    IF i = 2 * t.n THEN t
    ELSE EliminationLoopStabilizersOnly(
             IF i >= t.n /\ i # p /\ t.xs[i][q] THEN rowsum(t, i, p) ELSE t,
             q, p, i + 1)

\* `for i in range(2n): if i != p and self.xs[i, q]: self._rowsum(i, p)`
RECURSIVE EliminationLoop(_, _, _, _)
EliminationLoop(t, q, p, i) ==
    IF i = 2 * t.n THEN t
    ELSE EliminationLoop(IF i # p /\ t.xs[i][q] THEN rowsum(t, i, p) ELSE t,
                         q, p, i + 1)

\* The row rewrites, were row p copied to row p - n after it is reset.
RewriteRowsLate(t, q, p, bit) ==
    LET d == p - t.n
        u == [t EXCEPT !.xs[p] = [k \in Qubits(t.n) |-> FALSE],
                       !.zs[p] = [k \in Qubits(t.n) |-> k = q],
                       !.rs[p] = (bit # 0)]
    IN  [u EXCEPT !.xs[d] = u.xs[p], !.zs[d] = u.zs[p], !.rs[d] = u.rs[p]]

\* The row rewrites, were rs[p] left as the elimination loop found it.
RewriteRowsKeepsSign(t, q, p, bit) ==
    LET d == p - t.n
        u == [t EXCEPT !.xs[d] = t.xs[p], !.zs[d] = t.zs[p], !.rs[d] = t.rs[p]]
    IN  [u EXCEPT !.xs[p] = [k \in Qubits(t.n) |-> FALSE],
                  !.zs[p] = [k \in Qubits(t.n) |-> k = q]]

\* The row rewrites that end the anticommuting branch; bit = prng.randint(2).
RewriteRows(t, q, p, bit) ==
    LET d == p - t.n
        u == [t EXCEPT !.xs[d] = t.xs[p], !.zs[d] = t.zs[p], !.rs[d] = t.rs[p]]
    IN  [u EXCEPT !.xs[p] = [k \in Qubits(t.n) |-> FALSE],
                  !.zs[p] = [k \in Qubits(t.n) |-> k = q],
                  !.rs[p] = (bit # 0)]

\* _measure, were row p not copied to the destabilizer row p - n.
measureNoRewrite(t, q, prng) ==
    IF is_commuting(t, q)
    THEN LET u == CommutingLoop(ResetScratch(t), q, 0)
         IN  [t |-> u, out |-> int(u.rs[2 * t.n]), drawn |-> <<>>]
    ELSE LET p == Pivot(t, q)
             u == EliminationLoop(t, q, p, 0)
             v == [u EXCEPT !.xs[p] = [k \in Qubits(t.n) |-> FALSE],
                            !.zs[p] = [k \in Qubits(t.n) |-> k = q],
                            !.rs[p] = (Head(prng) # 0)]
         IN  [t |-> v, out |-> int(v.rs[p]), drawn |-> <<Head(prng)>>]

\* _measure, were the scratch row not cleared in the commuting branch.
measureNoReset(t, q, prng) ==
    IF is_commuting(t, q)
    THEN LET u == CommutingLoop(t, q, 0)
         IN  [t |-> u, out |-> int(u.rs[2 * t.n]), drawn |-> <<>>]
    ELSE LET p == Pivot(t, q)
             u == RewriteRows(EliminationLoop(t, q, p, 0), q, p, Head(prng))
         IN  [t |-> u, out |-> int(u.rs[p]), drawn |-> <<Head(prng)>>]

\* _measure(q, prng) on the arrays t, where prng is the sequence of values the
\* randomness source returns from now on.  The result holds the arrays after
\* the call, the returned outcome and the values drawn from prng.
measure(t, q, prng) ==
    IF is_commuting(t, q)
    THEN LET u == CommutingLoop(ResetScratch(t), q, 0)
         IN  [t |-> u, out |-> int(u.rs[2 * t.n]), drawn |-> <<>>]
    ELSE LET p == Pivot(t, q)
             u == RewriteRows(EliminationLoop(t, q, p, 0), q, p, Head(prng))
         IN  [t |-> u, out |-> int(u.rs[p]), drawn |-> <<Head(prng)>>]

\* The _rowsum calls of the commuting loop from row i on, in order, each as
\* <<q1, q2, r>> with r the residue the call reaches after `r %= 4`.
RECURSIVE CommutingCalls(_, _, _)
CommutingCalls(t, q, i) ==
    IF i = t.n THEN <<>>
    ELSE IF t.xs[i][q]
         THEN <<<<2 * t.n, t.n + i, rowsumPhase(t, 2 * t.n, t.n + i)>>>>
              \o CommutingCalls(rowsum(t, 2 * t.n, t.n + i), q, i + 1)
         ELSE CommutingCalls(t, q, i + 1)

\* The _rowsum calls of the elimination loop from row i on.
RECURSIVE EliminationCalls(_, _, _, _)
EliminationCalls(t, q, p, i) ==
    IF i = 2 * t.n THEN <<>>
    ELSE IF i # p /\ t.xs[i][q]
         THEN <<<<i, p, rowsumPhase(t, i, p)>>>>
              \o EliminationCalls(rowsum(t, i, p), q, p, i + 1)
         ELSE EliminationCalls(t, q, p, i + 1)

\* The _rowsum calls _measure(q, prng) makes on the arrays t.
measureCalls(t, q) ==
    IF is_commuting(t, q)
    THEN CommutingCalls(ResetScratch(t), q, 0)
    ELSE EliminationCalls(t, q, Pivot(t, q), 0)

\* --------------------------------------------------------------- validate

\* perm of _validate: list(range(n, 2n)) + list(range(n)).
perm(n, i) == IF i < n THEN i + n ELSE i - n

\* table = np.concatenate([self.xs, self.zs], axis=1), as 0 / 1.
table(t, i, c) == IF c < t.n THEN int(t.xs[i][c]) ELSE int(t.zs[i][c - t.n])

RECURSIVE SumRows(_, _, _, _)
SumRows(t, a, b, i) ==
    IF i = 2 * t.n THEN 0
    ELSE table(t, i, a) * table(t, perm(t.n, i), b) + SumRows(t, a, b, i + 1)

\* _validate(): table.T . skew_eye . table = skew_eye (mod 2), where
\* skew_eye[i][j] = 1 iff j = perm[i].
validate(t) ==
    \A a, b \in ViewRows(t.n) :
        SumRows(t, a, b, 0) % 2 = int(b = perm(t.n, a))

\* ------------------------------------------------- external gate updates

\* A caller's Hadamard on qubit q, written through the xs / zs / rs views:
\* swaps the X and Z parts of column q.
Hadamard(t, q) ==
    [t EXCEPT
        !.rs = [i \in AllRows(t.n) |->
                   IF i < 2 * t.n THEN t.rs[i] # (t.xs[i][q] /\ t.zs[i][q])
                   ELSE t.rs[i]],
        !.xs = [i \in AllRows(t.n) |->
                   IF i < 2 * t.n THEN [t.xs[i] EXCEPT ![q] = t.zs[i][q]]
                   ELSE t.xs[i]],
        !.zs = [i \in AllRows(t.n) |->
                   IF i < 2 * t.n THEN [t.zs[i] EXCEPT ![q] = t.xs[i][q]]
                   ELSE t.zs[i]]]

\* A caller's phase gate S on qubit q.
Phase(t, q) ==
    [t EXCEPT
        !.rs = [i \in AllRows(t.n) |->
                   IF i < 2 * t.n THEN t.rs[i] # (t.xs[i][q] /\ t.zs[i][q])
                   ELSE t.rs[i]],
        !.zs = [i \in AllRows(t.n) |->
                   IF i < 2 * t.n
                   THEN [t.zs[i] EXCEPT ![q] = (t.zs[i][q] # t.xs[i][q])]
                   ELSE t.zs[i]]]

\* A caller's CNOT with control c and target d.
CNot(t, c, d) ==
    [t EXCEPT
        !.rs = [i \in AllRows(t.n) |->
                   IF i < 2 * t.n
                   THEN t.rs[i] # (t.xs[i][c] /\ t.zs[i][d]
                                   /\ (t.xs[i][d] = t.zs[i][c]))
                   ELSE t.rs[i]],
        !.xs = [i \in AllRows(t.n) |->
                   IF i < 2 * t.n
                   THEN [t.xs[i] EXCEPT ![d] = (t.xs[i][d] # t.xs[i][c])]
                   ELSE t.xs[i]],
        !.zs = [i \in AllRows(t.n) |->
                   IF i < 2 * t.n
                   THEN [t.zs[i] EXCEPT ![c] = (t.zs[i][c] # t.zs[i][d])]
                   ELSE t.zs[i]]]

\* ------------------------------------------- views, setters, equality, copy

\* The xs / zs / rs properties: the arrays without the scratch row.
xsView(t) == [i \in ViewRows(t.n) |-> t.xs[i]]
zsView(t) == [i \in ViewRows(t.n) |-> t.zs[i]]
rsView(t) == [i \in ViewRows(t.n) |-> t.rs[i]]

\* np.shape of a vector is (Rows,), of a matrix (Rows, Cols).
Rows(v) == Cardinality(DOMAIN v)
Cols(v) == Cardinality(DOMAIN v[0])

\* The assert on a matrix, were it to ask only that the value is large enough.
ShapeIsMatrixAtLeast(v, n) ==
    /\ ViewRows(n) \subseteq DOMAIN v
    /\ \A i \in DOMAIN v : Qubits(n) \subseteq DOMAIN v[i]

\* np.shape(new_rs) == (2n,) and np.shape(new_xs) == (2n, n).
ShapeIsVector(v, n) == DOMAIN v = ViewRows(n)
ShapeIsMatrix(v, n) ==
    DOMAIN v = ViewRows(n) /\ \A i \in DOMAIN v : DOMAIN v[i] = Qubits(n)

\* The setters past their assert: `self._rs[:-1] = new_rs`, and so on.
set_rs(t, new_rs) ==
    [t EXCEPT !.rs = [i \in AllRows(t.n) |->
                         IF i < 2 * t.n THEN new_rs[i] ELSE t.rs[i]]]
set_xs(t, new_xs) ==
    [t EXCEPT !.xs = [i \in AllRows(t.n) |->
                         IF i < 2 * t.n THEN new_xs[i] ELSE t.xs[i]]]
set_zs(t, new_zs) ==
    [t EXCEPT !.zs = [i \in AllRows(t.n) |->
                         IF i < 2 * t.n THEN new_zs[i] ELSE t.zs[i]]]

\* __eq__ between two tableaux.
eq(t, u) ==
    /\ t.n = u.n
    /\ rsView(t) = rsView(u)
    /\ xsView(t) = xsView(u)
    /\ zsView(t) = zsView(u)

\* The arrays of the object copy() builds: a fresh CliffordTableau(self.n)
\* assigned copies of the three views.
copy(t) ==
    set_zs(set_xs(set_rs(CliffordTableau(t.n, 0), rsView(t)), xsView(t)),
           zsView(t))

\* ----------------------------------------------------------- serialization

\* ndarray.tolist() of the JSON encoder: a 0-based array as a list.
tolist(a) == [k \in 1..Cardinality(DOMAIN a) |-> a[k - 1]]
tolist2(a) == [k \in 1..Cardinality(DOMAIN a) |-> tolist(a[k - 1])]

\* np.array(list): a list as a 0-based array.
np_array(l) == [i \in 0..(Len(l) - 1) |-> l[i + 1]]
np_array2(l) == [i \in 0..(Len(l) - 1) |-> np_array(l[i + 1])]

\* _json_dict_(): the fields n, rs, xs, zs as read through the properties.
json_dict(t) ==
    [n  |-> t.n,
     rs |-> tolist(rsView(t)),
     xs |-> tolist2(xsView(t)),
     zs |-> tolist2(zsView(t))]

\* Whether the setters' asserts of _from_json_dict_ pass for record r.
from_json_dict_ok(r) ==
    /\ ShapeIsVector(np_array(r.rs), r.n)
    /\ ShapeIsMatrix(np_array2(r.xs), r.n)
    /\ ShapeIsMatrix(np_array2(r.zs), r.n)

\* _from_json_dict_, were `state.rs = ...` left out.
from_json_dictNoSigns(r) ==
    set_zs(set_xs(CliffordTableau(r.n, 0), np_array2(r.xs)), np_array2(r.zs))

\* _from_json_dict_(n, rs, xs, zs): cls(n), then the three setters.
from_json_dict(r) ==
    set_zs(set_xs(set_rs(CliffordTableau(r.n, 0), np_array(r.rs)),
                  np_array2(r.xs)),
           np_array2(r.zs))

\* ------------------------------------------------------- objects and heap

Objects == 1..Len(obj)

\* The arrays of object o, by value.
Arrays(o) == [n  |-> obj[o].n,
              xs |-> heap[obj[o].xs],
              zs |-> heap[obj[o].zs],
              rs |-> heap[obj[o].rs]]

\* The heap after object o's arrays are written in place with those of t.
Written(o, t) ==
    [a \in DOMAIN heap |->
        IF a = obj[o].rs THEN t.rs
        ELSE IF a = obj[o].xs THEN t.xs
        ELSE IF a = obj[o].zs THEN t.zs
        ELSE heap[a]]

\* A new object with freshly allocated arrays holding those of t.
Allocate(t) ==
    /\ heap' = heap \o <<t.xs, t.zs, t.rs>>
    /\ obj' = Append(obj, [n  |-> t.n,
                           xs |-> Len(heap) + 1,
                           zs |-> Len(heap) + 2,
                           rs |-> Len(heap) + 3])

\* The arrays of object o after the step.
ArraysNext(o) == [n  |-> obj'[o].n,
                  xs |-> heap'[obj'[o].xs],
                  zs |-> heap'[obj'[o].zs],
                  rs |-> heap'[obj'[o].rs]]

\* No call made yet.  `again` says that the call before was the same call
\* (operation, receiver and arguments); `out` is what _measure returned,
\* `drawn` the values it took from the randomness source and `odd` whether
\* one of its _rowsum calls reached an odd residue (r after `r %= 4`); `err`
\* says that the call raised.
NoCall ==
    [op |-> "none", o |-> 0, a |-> -1, b |-> -1, again |-> FALSE,
     out |-> -1, drawn |-> <<>>, odd |-> FALSE, err |-> FALSE]

Call(op, o, a, b) == [NoCall EXCEPT !.op = op, !.o = o, !.a = a, !.b = b]

\* A call that raised: nothing is returned.
Raised(op, o, a, b) == [Call(op, o, a, b) EXCEPT !.err = TRUE]

Again(op, o, a, b) ==
    last.op = op /\ last.o = o /\ last.a = a /\ last.b = b

\* ---------------------------------------------------------------- actions

Init ==
    /\ heap = <<>>
    /\ obj = <<>>
    /\ rec = <<>>
    /\ last = NoCall
    /\ pre = <<>>
    /\ steps = 0

\* CliffordTableau(n, initial_state), were the digits taken without the
\* range check of big_endian_int_to_digits.
NewUnchecked(n, initial_state) ==
    /\ obj = <<>>
    /\ \E t \in {CliffordTableau(n, initial_state)} : Allocate(t)
    /\ last' = Call("init", 1, n, initial_state)
    /\ pre' = <<>>
    /\ UNCHANGED rec

\* CliffordTableau(n, initial_state), the first object of a run.  Where
\* big_endian_int_to_digits raises, __init__ raises and there is no object.
New(n, initial_state) ==
    /\ obj = <<>>
    /\ IF big_endian_int_to_digits(initial_state, n).ok
       THEN /\ \E t \in {CliffordTableau(n, initial_state)} : Allocate(t)
            /\ last' = Call("init", 1, n, initial_state)
       ELSE /\ UNCHANGED <<heap, obj>>
            /\ last' = Raised("init", 0, n, initial_state)
    /\ pre' = <<>>
    /\ UNCHANGED rec

\* o._measure(q, prng), with bit the next value of the randomness source.
Measure(o, q, bit) ==
    \E m \in {measure(Arrays(o), q, <<bit>>)} :
    \E c \in {measureCalls(Arrays(o), q)} :
        /\ heap' = Written(o, m.t)
        /\ last' = [Call("measure", o, q, -1) EXCEPT
                        !.out = m.out,
                        !.drawn = m.drawn,
                        !.odd = (\E k \in DOMAIN c : c[k][3] \in {1, 3}),
                        !.again = Again("measure", o, q, -1)]
        /\ pre' = <<>>
        /\ UNCHANGED <<obj, rec>>

\* o._rowsum(q1, q2)
Rowsum(o, q1, q2) ==
    /\ \E t \in {rowsum(Arrays(o), q1, q2)} : heap' = Written(o, t)
    /\ last' = [Call("rowsum", o, q1, q2) EXCEPT
                    !.again = Again("rowsum", o, q1, q2)]
    /\ pre' = <<Arrays(o)>>
    /\ UNCHANGED <<obj, rec>>

\* o.rs = new_rs, o.xs = new_xs, o.zs = new_zs: the assert on the shape of
\* the value, then the assignment.  The call is recorded with the shape of
\* the value: (a,) for a vector, (a, b) for a matrix.
SetRs(o, new_rs) ==
    /\ IF ShapeIsVector(new_rs, obj[o].n)
       THEN /\ \E t \in {set_rs(Arrays(o), new_rs)} : heap' = Written(o, t)
            /\ last' = Call("set_rs", o, Rows(new_rs), -1)
       ELSE /\ heap' = heap
            /\ last' = Raised("set_rs", o, Rows(new_rs), -1)
    /\ pre' = <<>>
    /\ UNCHANGED <<obj, rec>>

SetXs(o, new_xs) ==
    /\ IF ShapeIsMatrix(new_xs, obj[o].n)
       THEN /\ \E t \in {set_xs(Arrays(o), new_xs)} : heap' = Written(o, t)
            /\ last' = Call("set_xs", o, Rows(new_xs), Cols(new_xs))
       ELSE /\ heap' = heap
            /\ last' = Raised("set_xs", o, Rows(new_xs), Cols(new_xs))
    /\ pre' = <<>>
    /\ UNCHANGED <<obj, rec>>

SetZs(o, new_zs) ==
    /\ IF ShapeIsMatrix(new_zs, obj[o].n)
       THEN /\ \E t \in {set_zs(Arrays(o), new_zs)} : heap' = Written(o, t)
            /\ last' = Call("set_zs", o, Rows(new_zs), Cols(new_zs))
       ELSE /\ heap' = heap
            /\ last' = Raised("set_zs", o, Rows(new_zs), Cols(new_zs))
    /\ pre' = <<>>
    /\ UNCHANGED <<obj, rec>>

\* o.copy(), were the new object to share o's arrays instead of owning its own.
CopyShared(o) ==
    /\ Len(obj) < MaxObjs
    /\ obj' = Append(obj, obj[o])
    /\ last' = Call("copy", o, Len(obj) + 1, -1)
    /\ pre' = <<>>
    /\ UNCHANGED <<heap, rec>>

\* o.copy(): the new object is the next one of obj.
Copy(o) ==
    /\ Len(obj) < MaxObjs
    /\ \E t \in {copy(Arrays(o))} : Allocate(t)
    /\ last' = Call("copy", o, Len(obj) + 1, -1)
    /\ pre' = <<>>
    /\ UNCHANGED rec

\* o._json_dict_(), serialized
JsonDict(o) ==
    /\ rec' = <<json_dict(Arrays(o))>>
    /\ last' = Call("json_dict", o, -1, -1)
    /\ pre' = <<>>
    /\ UNCHANGED <<heap, obj>>

\* CliffordTableau._from_json_dict_(**rec)
FromJsonDict ==
    /\ Len(rec) = 1
    /\ Len(obj) < MaxObjs
    /\ from_json_dict_ok(rec[1])
    /\ \E t \in {from_json_dict(rec[1])} : Allocate(t)
    /\ last' = Call("from_json_dict", Len(obj) + 1, -1, -1)
    /\ pre' = <<>>
    /\ UNCHANGED rec

\* A caller's gate on o.
ApplyH(o, q) ==
    /\ \E t \in {Hadamard(Arrays(o), q)} : heap' = Written(o, t)
    /\ last' = Call("gate", o, -1, -1)
    /\ UNCHANGED <<obj, rec, pre>>

ApplyS(o, q) ==
    /\ \E t \in {Phase(Arrays(o), q)} : heap' = Written(o, t)
    /\ last' = Call("gate", o, -1, -1)
    /\ UNCHANGED <<obj, rec, pre>>

ApplyCNot(o, c, d) ==
    /\ c # d
    /\ \E t \in {CNot(Arrays(o), c, d)} : heap' = Written(o, t)
    /\ last' = Call("gate", o, -1, -1)
    /\ UNCHANGED <<obj, rec, pre>>

\* ------------------------------------------------------- specifications

\* The values a caller gives for initial_state: those of n bits, and as many
\* that need one bit more.
InitialStates(n) == 0..(2 * Pow2(n) - 1)

\* Clifford simulation: a tableau is built for a basis state, and a caller
\* applies gates and measurements to it in any order.
Next ==
    \/ \E n \in 1..MaxN : \E s \in InitialStates(n) :
          New(n, s) /\ UNCHANGED steps
    \/ \E o \in Objects : \E q \in Qubits(obj[o].n) : \E bit \in {0, 1} :
          Measure(o, q, bit) /\ UNCHANGED steps
    \/ \E o \in Objects : \E q \in Qubits(obj[o].n) :
          ApplyH(o, q) /\ UNCHANGED steps
    \/ \E o \in Objects : \E q \in Qubits(obj[o].n) :
          ApplyS(o, q) /\ UNCHANGED steps
    \/ \E o \in Objects : \E c, d \in Qubits(obj[o].n) :
          ApplyCNot(o, c, d) /\ UNCHANGED steps

Spec == Init /\ [][Next]_vars

\* The values a caller assigns: any sign vector; a matrix that differs from
\* the current one in at most one row.
RowValues(n) == [Qubits(n) -> BOOLEAN]
SignValues(n) == [ViewRows(n) -> BOOLEAN]
Overwrites(m, n) ==
    {[m EXCEPT ![i] = row] : i \in ViewRows(n), row \in RowValues(n)}

\* Values of a shape the setters do not take: a row too many (as the arrays
\* with their scratch row have), a row too few, a column too many or too few.
WrongSigns(n) ==
    {[i \in 0..(r - 1) |-> TRUE] : r \in {2 * n - 1, 2 * n + 1}}
WrongMatrices(n) ==
    {[i \in 0..(sh[1] - 1) |-> [k \in 0..(sh[2] - 1) |-> TRUE]] :
        sh \in {<<2 * n + 1, n>>, <<2 * n - 1, n>>,
                 <<2 * n, n + 1>>, <<2 * n, n - 1>>}}

Counted == steps < MaxSteps /\ steps' = steps + 1

\* Arbitrary use of the class: after construction, up to MaxSteps calls of
\* rowsum, measure, the setters, copy and the serialization, on any object.
NextAny ==
    \/ \E n \in 1..MaxN : \E s \in InitialStates(n) :
          New(n, s) /\ UNCHANGED steps
    \/ Counted /\ \E o \in Objects : \E q \in Qubits(obj[o].n) :
          \E bit \in {0, 1} : Measure(o, q, bit)
    \/ Counted /\ \E o \in Objects : \E q1, q2 \in AllRows(obj[o].n) :
          Rowsum(o, q1, q2)
    \/ Counted /\ \E o \in Objects : \E v \in SignValues(obj[o].n) \cup WrongSigns(obj[o].n) :
          SetRs(o, v)
    \/ Counted /\ \E o \in Objects :
          \E v \in Overwrites(xsView(Arrays(o)), obj[o].n)
                       \cup WrongMatrices(obj[o].n) : SetXs(o, v)
    \/ Counted /\ \E o \in Objects :
          \E v \in Overwrites(zsView(Arrays(o)), obj[o].n)
                       \cup WrongMatrices(obj[o].n) : SetZs(o, v)
    \/ Counted /\ \E o \in Objects : Copy(o)
    \/ Counted /\ \E o \in Objects : JsonDict(o)
    \/ Counted /\ FromJsonDict

SpecAny == Init /\ [][NextAny]_vars

\* Row operations: a tableau is built for a basis state, and then up to
\* MaxSteps calls rowsum(i, j) with i # j, both in [0, 2n), are made on it.
NextRowOps ==
    \/ \E n \in 1..MaxN : \E s \in InitialStates(n) :
          New(n, s) /\ UNCHANGED steps
    \/ Counted /\ \E o \in Objects : \E q1, q2 \in ViewRows(obj[o].n) :
          q1 # q2 /\ Rowsum(o, q1, q2)

SpecRowOps == Init /\ [][NextRowOps]_vars

\* A tableau built by CliffordTableau(n), rows 0 and 1 of which a caller has
\* then assigned, through xs, zs and rs, the values x, z and r.
Assigned(n, x, z, r) ==
    LET t == CliffordTableau(n, 0)
    IN  set_zs(set_xs(set_rs(t, [rsView(t) EXCEPT ![0] = r[1], ![1] = r[2]]),
                      [xsView(t) EXCEPT ![0] = x[1], ![1] = x[2]]),
               [zsView(t) EXCEPT ![0] = z[1], ![1] = z[2]])

InitRows ==
    \E n \in 1..MaxN :
    \E x, z \in RowValues(n) \X RowValues(n) : \E r \in BOOLEAN \X BOOLEAN :
    \E t \in {Assigned(n, x, z, r)} :
        /\ heap = <<t.xs, t.zs, t.rs>>
        /\ obj = <<[n |-> n, xs |-> 1, zs |-> 2, rs |-> 3]>>
        /\ rec = <<>>
        /\ last = Call("set_zs", 1, 2 * n, n)
        /\ pre = <<>>
        /\ steps = 0

\* rowsum on any rows: up to MaxRowsums calls rowsum(q1, q2), on any two
\* rows of the arrays, of a tableau with two rows of any contents.
NextRows ==
    /\ steps < MaxRowsums
    /\ steps' = steps + 1
    /\ \E o \in Objects : \E q1, q2 \in AllRows(obj[o].n) : Rowsum(o, q1, q2)

SpecRows == InitRows /\ [][NextRows]_vars

\* ------------------------------------------------------------- properties

\* The calls that write to a tableau's arrays.
Mutators == {"measure", "rowsum", "set_rs", "set_xs", "set_zs", "gate"}

FalseRow(n) == [k \in Qubits(n) |-> FALSE]

\* Digit i (0-based, most significant first) of the n-digit binary
\* representation of s.
BinaryDigit(s, n, i) == (s \div Pow2(n - 1 - i)) % 2

\* Rows [0, 2n) of two sets of arrays agree.
SameViews(t, u) ==
    \A i \in ViewRows(t.n) :
        t.xs[i] = u.xs[i] /\ t.zs[i] = u.zs[i] /\ t.rs[i] = u.rs[i]

\* C1: measure preserves the symplectic invariant: every tableau built by the
\* constructor and updated by any sequence of measurements and
\* symplectic-preserving gates satisfies validate().
C1_MeasureKeepsValid == \A o \in Objects : validate(Arrays(o))

\* A 2-qubit tableau just measured in the anticommuting case (a bit drawn).
C1_Witness ==
    /\ last.op = "measure"
    /\ Len(last.drawn) = 1
    /\ obj[last.o].n = 2
    /\ validate(Arrays(last.o))

\* C2: measure(q) called twice in succession on any tableau returns the same
\* outcome both times, and leaves n, xs, zs, rs (rows [0, 2n)) as the first
\* call left them, whatever the randomness source would supply.
C2_MeasureTwice ==
    [][(last'.op = "measure" /\ last'.again)
         => /\ last'.out = last.out
            /\ eq(ArraysNext(last.o), Arrays(last.o))]_vars

\* A second measurement in a row of a 2-qubit tableau that is not symplectic,
\* returning 1.
C2_Witness ==
    /\ last.op = "measure"
    /\ last.again
    /\ last.out = 1
    /\ obj[last.o].n = 2
    /\ ~validate(Arrays(last.o))

\* C3: when some stabilizer row has an X on q at entry and p is the lowest
\* such row, measure(q) leaves row p equal to Z_q with sign rs[p] the bit
\* drawn from the randomness source, and returns that bit.
C3_AnticommutingPost ==
    [][(last'.op = "measure"
        /\ \E i \in (obj[last'.o].n)..(2 * obj[last'.o].n - 1) :
               heap[obj[last'.o].xs][i][last'.a])
         => LET o == last'.o
                q == last'.a
                n == obj[o].n
                t == Arrays(o)
                u == ArraysNext(o)
                p == CHOOSE i \in n..(2 * n - 1) :
                         /\ t.xs[i][q]
                         /\ \A j \in n..(i - 1) : ~t.xs[j][q]
            IN  /\ \A k \in Qubits(n) : ~u.xs[p][k]
                /\ \A k \in Qubits(n) : u.zs[p][k] <=> (k = q)
                /\ Len(last'.drawn) = 1
                /\ last'.drawn[1] \in {0, 1}
                /\ u.rs[p] = (last'.drawn[1] = 1)
                /\ last'.out = last'.drawn[1]]_vars

\* An anticommuting measurement of qubit 0 of a 2-qubit tableau whose pivot
\* is the second stabilizer row (row 3 is now Z_0), with bit 1 drawn.
C3_Witness ==
    /\ last.op = "measure"
    /\ last.drawn = <<1>>
    /\ last.a = 0
    /\ obj[last.o].n = 2
    /\ Arrays(last.o).zs[3] = [k \in Qubits(2) |-> k = 0]
    /\ Arrays(last.o).xs[3] = FalseRow(2)
    /\ Arrays(last.o).rs[3]
    /\ Arrays(last.o).zs[2] # [k \in Qubits(2) |-> k = 0]

\* C4: when no stabilizer row has an X on q at entry, measure(q) changes
\* nothing but the scratch row 2n of the receiver's arrays, draws nothing,
\* and returns rs[2n] as 0 or 1.
C4_CommutingFrame ==
    [][(last'.op = "measure"
        /\ \A i \in (obj[last'.o].n)..(2 * obj[last'.o].n - 1) :
               ~heap[obj[last'.o].xs][i][last'.a])
         => LET o == last'.o
                n == obj[o].n
            IN  /\ obj' = obj
                /\ DOMAIN heap' = DOMAIN heap
                /\ \A a \in DOMAIN heap :
                       IF a \in {obj[o].xs, obj[o].zs, obj[o].rs}
                       THEN /\ DOMAIN heap'[a] = DOMAIN heap[a]
                            /\ \A i \in ViewRows(n) : heap'[a][i] = heap[a][i]
                       ELSE heap'[a] = heap[a]
                /\ last'.out = int(heap'[obj[o].rs][2 * n])
                /\ last'.out \in {0, 1}]_vars

\* A commuting measurement of qubit 0 of a 2-qubit tableau that returned 1,
\* with both destabilizer rows holding an X on qubit 0 (two rowsum calls
\* into the scratch row).
C4_Witness ==
    /\ last.op = "measure"
    /\ last.drawn = <<>>
    /\ last.out = 1
    /\ last.a = 0
    /\ obj[last.o].n = 2
    /\ Arrays(last.o).xs[0][0]
    /\ Arrays(last.o).xs[1][0]

\* C5: measuring qubit q of a tableau just built for initial_state takes the
\* commuting branch (draws nothing), returns digit q of the n-digit
\* big-endian binary representation of initial_state, and leaves rows
\* [0, 2n) unchanged.
C5_FreshMeasure ==
    [][(last.op = "init" /\ last'.op = "measure")
         => /\ last'.drawn = <<>>
            /\ last'.out = BinaryDigit(last.b, last.a, last'.a)
            /\ eq(ArraysNext(last'.o), Arrays(last'.o))]_vars

\* Qubit 1 of the fresh 2-qubit tableau for initial_state 1 (binary 01) was
\* measured and gave 1.
C5_Witness ==
    /\ last.op = "measure"
    /\ last.a = 1
    /\ last.out = 1
    /\ obj[last.o].n = 2
    /\ SameViews(Arrays(last.o), CliffordTableau(2, 1))

\* C6: the constructor leaves xs[i,k] true iff i < n and k = i, zs[i,k] true
\* iff i >= n and k = i - n (rows [0, 2n)), rs false on the destabilizer rows,
\* rs[n+i] equal to digit i (most significant first) of initial_state, and the
\* scratch row 2n all false.
C6_ConstructorPost ==
    (last.op = "init" /\ ~last.err)
      => LET n == last.a
             s == last.b
             t == Arrays(last.o)
         IN  /\ t.n = n
             /\ DOMAIN t.xs = 0..(2 * n) /\ DOMAIN t.zs = 0..(2 * n)
             /\ DOMAIN t.rs = 0..(2 * n)
             /\ \A i \in 0..(2 * n - 1) : \A k \in 0..(n - 1) :
                    /\ t.xs[i][k] <=> (i < n /\ k = i)
                    /\ t.zs[i][k] <=> (i >= n /\ k = i - n)
             /\ \A i \in 0..(n - 1) :
                    /\ ~t.rs[i]
                    /\ t.rs[n + i] <=> (BinaryDigit(s, n, i) = 1)
             /\ \A k \in 0..(n - 1) : ~t.xs[2 * n][k] /\ ~t.zs[2 * n][k]
             /\ ~t.rs[2 * n]

\* The 2-qubit tableau for initial_state 2 (binary 10) was just built.
C6_Witness ==
    /\ last.op = "init"
    /\ last.a = 2
    /\ last.b = 2
    /\ Arrays(1).rs[2]
    /\ ~Arrays(1).rs[3]

\* C7: measure draws from the randomness source once in the anticommuting
\* branch and never in the commuting branch, and its outcome and rows
\* [0, 2n) are those it produces from the same rows with a cleared scratch
\* row: they do not depend on what earlier measurements left in the scratch row.
C7_RandomnessAndScratch ==
    [][last'.op = "measure"
         => \E t \in {Arrays(last'.o)} :
            \E anti \in {\E i \in (t.n)..(2 * t.n - 1) : t.xs[i][last'.a]} :
            \E m \in {measure(ResetScratch(t), last'.a,
                               IF anti THEN last'.drawn ELSE <<0>>)} :
            \E u \in {ArraysNext(last'.o)} :
                /\ Len(last'.drawn) = (IF anti THEN 1 ELSE 0)
                /\ last'.out = m.out
                /\ SameViews(u, m.t)]_vars

\* An anticommuting measurement that drew 1 was made on a 2-qubit tableau
\* whose scratch row an earlier measurement had left holding a negative
\* Pauli operator.
C7_Witness ==
    /\ last.op = "measure"
    /\ last.drawn = <<1>>
    /\ obj[last.o].n = 2
    /\ \E k \in Qubits(2) : Arrays(last.o).zs[4][k]
    /\ Arrays(last.o).rs[4]

\* C8: rowsum(i, j) sets xs[i] and zs[i] to the bitwise XOR of rows i and j,
\* and for i # j a second rowsum(i, j) right after the first returns xs[i] and
\* zs[i] to their values before the first.
C8_RowsumXor ==
    [][last'.op = "rowsum"
         => LET o == last'.o
                i == last'.a
                j == last'.b
                t == Arrays(o)
                u == ArraysNext(o)
            IN  /\ \A k \in Qubits(t.n) :
                       /\ u.xs[i][k] <=> (t.xs[i][k] # t.xs[j][k])
                       /\ u.zs[i][k] <=> (t.zs[i][k] # t.zs[j][k])
                /\ (last'.again /\ i # j)
                     => u.xs[i] = pre[1].xs[i] /\ u.zs[i] = pre[1].zs[i]]_vars

\* A second rowsum(i, j), i # j, in a row, on a 2-qubit tableau whose row j
\* holds a Y, and which changed the phase bit of row i.
C8_Witness ==
    /\ last.op = "rowsum"
    /\ last.again
    /\ last.a # last.b
    /\ obj[last.o].n = 2
    /\ \E k \in Qubits(2) :
           Arrays(last.o).xs[last.b][k] /\ Arrays(last.o).zs[last.b][k]
    /\ Arrays(last.o).rs[last.a] # pre[1].rs[last.a]

\* C9: the serialized record holds n and rows [0, 2n) of rs, xs, zs (no
\* scratch row), and the tableau reconstructed from the record of T equals T.
C9_JsonRoundTrip ==
    [][/\ last'.op = "json_dict"
            => LET t == Arrays(last'.o)
                   r == rec'[1]
               IN  /\ r.n = t.n
                   /\ Len(r.rs) = 2 * t.n /\ Len(r.xs) = 2 * t.n
                   /\ Len(r.zs) = 2 * t.n
                   /\ \A i \in ViewRows(t.n) :
                          /\ r.rs[i + 1] = t.rs[i]
                          /\ Len(r.xs[i + 1]) = t.n /\ Len(r.zs[i + 1]) = t.n
                          /\ \A k \in Qubits(t.n) :
                                 /\ r.xs[i + 1][k + 1] = t.xs[i][k]
                                 /\ r.zs[i + 1][k + 1] = t.zs[i][k]
       /\ (last.op = "json_dict" /\ last'.op = "from_json_dict")
            => /\ eq(ArraysNext(last'.o), Arrays(last.o))
               /\ eq(Arrays(last.o), ArraysNext(last'.o))]_vars

\* Object 2 was reconstructed from the record of object 1, a 2-qubit tableau
\* with a negative sign and a nonzero scratch row.
C9_Witness ==
    /\ last.op = "from_json_dict"
    /\ last.o = 2
    /\ obj[1].n = 2
    /\ rec = <<json_dict(Arrays(1))>>
    /\ \E i \in ViewRows(2) : Arrays(1).rs[i]
    /\ \E k \in Qubits(2) : Arrays(1).zs[4][k]
    /\ eq(Arrays(1), Arrays(2))

\* C10: copy() returns a tableau equal to the original, and a mutation of
\* either (rowsum, measure, an assignment to xs, zs or rs) leaves n, xs, zs
\* and rs of every other tableau unchanged.
C10_CopyIndependent ==
    [][/\ last'.op = "copy"
            => /\ eq(ArraysNext(last'.a), Arrays(last'.o))
               /\ eq(Arrays(last'.o), ArraysNext(last'.a))
               /\ eq(ArraysNext(last'.o), Arrays(last'.o))
       /\ last'.op \in Mutators
            => \A other \in Objects \ {last'.o} :
                   eq(ArraysNext(other), Arrays(other))]_vars

\* The copy (object 2) of a 2-qubit tableau, itself no longer symplectic when
\* copied, was mutated by rowsum and now differs from the original.
C10_Witness ==
    /\ Len(obj) = 2
    /\ rec = <<>>
    /\ obj[1].n = 2
    /\ last.op = "rowsum"
    /\ last.o = 2
    /\ ~eq(Arrays(1), Arrays(2))
    /\ ~validate(Arrays(1))

\* C11: assigning to xs or zs a value whose shape is not (2n, n), or to rs a
\* value whose shape is not (2n,), raises and leaves the arrays of every
\* tableau (scratch rows included) as they were.
C11_ShapeMismatchRejected ==
    [][(/\ last'.op \in {"set_rs", "set_xs", "set_zs"}
        /\ <<last'.a, last'.b>> #
               (IF last'.op = "set_rs"
                THEN <<2 * obj[last'.o].n, -1>>
                ELSE <<2 * obj[last'.o].n, obj[last'.o].n>>))
          => /\ last'.err
             /\ heap' = heap
             /\ obj' = obj]_vars

\* A value of shape (2n + 1, n), as the arrays with their scratch row have,
\* was assigned to xs of a 2-qubit tableau no longer as constructed, and the
\* assignment raised.
C11_Witness ==
    /\ last.op = "set_xs"
    /\ last.err
    /\ <<last.a, last.b>> = <<5, 2>>
    /\ obj[last.o].n = 2
    /\ ~SameViews(Arrays(last.o), CliffordTableau(2, 0))

\* C12: constructing a tableau with an initial_state of more than n bits
\* (initial_state >= 2^n) raises and builds no tableau.
C12_InitialStateRejected ==
    (last.op = "init" /\ last.b >= Pow2(last.a))
      => last.err /\ obj = <<>> /\ heap = <<>>

\* The construction of a 2-qubit tableau for initial_state 5 (binary 101)
\* raised.
C12_Witness ==
    /\ last.op = "init"
    /\ last.a = 2
    /\ last.b = 5
    /\ last.err
    /\ obj = <<>>

\* C13 as stated: on a valid tableau every rowsum call that measure performs,
\* in either branch, reaches a residue r mod 4 that is 0 or 2.
C13_AllResiduesReal ==
    [][last'.op = "measure"
         => ~last'.odd \/ ~validate(Arrays(last'.o))]_vars

\* C13 as amended: on a valid tableau every rowsum call that measure performs
\* reaches a residue that is 0 or 2, but for the call rowsum(p - n, p) of the
\* anticommuting branch (made when destabilizer row p - n has an X on q, and
\* whose target row the rewrite then overwrites), which reaches 1 or 3.
C13_ResiduesRealButPartner ==
    [][last'.op = "measure"
         => \E c \in {measureCalls(Arrays(last'.o), last'.a)} :
              \/ /\ \A k \in DOMAIN c :
                        IF c[k][1] = c[k][2] - obj[last'.o].n
                        THEN c[k][3] \in {1, 3}
                        ELSE c[k][3] \in {0, 2}
                 /\ last'.odd = (\E k \in DOMAIN c : c[k][3] \in {1, 3})
              \/ ~validate(Arrays(last'.o))]_vars

\* A measurement of qubit 1 of a valid 2-qubit tableau made a rowsum call of
\* odd residue.
C13_Witness ==
    /\ last.op = "measure"
    /\ last.a = 1
    /\ obj[last.o].n = 2
    /\ validate(Arrays(last.o))
    /\ last.odd

\* The Pauli operator a pair of bits stands for, with Y = iXZ.
Pauli(x, z) ==
    IF x THEN (IF z THEN "Y" ELSE "X") ELSE (IF z THEN "Z" ELSE "I")

\* The product a * b of two single-qubit Pauli operators: the operator p and
\* the power k of i in a * b = i^k p.
PauliTimes(a, b) ==
    IF a = "I" THEN [p |-> b, k |-> 0]
    ELSE IF b = "I" THEN [p |-> a, k |-> 0]
    ELSE IF a = b THEN [p |-> "I", k |-> 0]
    ELSE IF <<a, b>> = <<"X", "Y">> THEN [p |-> "Z", k |-> 1]
    ELSE IF <<a, b>> = <<"Y", "Z">> THEN [p |-> "X", k |-> 1]
    ELSE IF <<a, b>> = <<"Z", "X">> THEN [p |-> "Y", k |-> 1]
    ELSE IF <<a, b>> = <<"Y", "X">> THEN [p |-> "Z", k |-> 3]
    ELSE IF <<a, b>> = <<"Z", "Y">> THEN [p |-> "X", k |-> 3]
    ELSE [p |-> "Y", k |-> 3]

\* The Pauli operator of row i of t on qubit k.
RowPauli(t, i, k) == Pauli(t.xs[i][k], t.zs[i][k])

\* The power of i in the product of the signed Pauli operators of rows i and
\* j of t: 2 for each negative sign, and that of each qubit from qubit k on.
RECURSIVE ProductPower(_, _, _, _)
ProductPower(t, i, j, k) ==
    IF k = t.n THEN 2 * int(t.rs[i]) + 2 * int(t.rs[j])
    ELSE PauliTimes(RowPauli(t, i, k), RowPauli(t, j, k)).k
         + ProductPower(t, i, j, k + 1)

\* The Pauli operators of rows i and j of t commute: they differ, neither
\* being the identity, on an even number of qubits.
RowsCommute(t, i, j) ==
    Cardinality({k \in Qubits(t.n) :
        /\ RowPauli(t, i, k) # "I"
        /\ RowPauli(t, j, k) # "I"
        /\ RowPauli(t, i, k) # RowPauli(t, j, k)}) % 2 = 0

\* C14: for distinct rows i and j whose Pauli operators commute, rowsum(i, j)
\* leaves in row i the product P_i * P_j of the reference multiplication:
\* its operator on every qubit, and rs[i] true iff the product has sign -1.
C14_RowsumIsProduct ==
    [][(last'.op = "rowsum" /\ last'.a # last'.b
        /\ RowsCommute(Arrays(last'.o), last'.a, last'.b))
         => \E t \in {Arrays(last'.o)} : \E u \in {ArraysNext(last'.o)} :
            \E w \in {ProductPower(t, last'.a, last'.b, 0) % 4} :
                /\ \A k \in Qubits(t.n) :
                       RowPauli(u, last'.a, k) =
                           PauliTimes(RowPauli(t, last'.a, k),
                                      RowPauli(t, last'.b, k)).p
                /\ w \in {0, 2}
                /\ u.rs[last'.a] <=> (w = 2)]_vars

\* rowsum(0, 1) was called once on a 2-qubit tableau whose rows 0 and 1 were
\* +YX and -XY, and left -ZZ in row 0: (YX)(-XY) = -(-iZ)(iZ) = -ZZ.
C14_Witness ==
    /\ last.op = "rowsum"
    /\ <<last.a, last.b>> = <<0, 1>>
    /\ steps = 1
    /\ obj[last.o].n = 2
    /\ RowPauli(pre[1], 0, 0) = "Y" /\ RowPauli(pre[1], 0, 1) = "X"
    /\ RowPauli(pre[1], 1, 0) = "X" /\ RowPauli(pre[1], 1, 1) = "Y"
    /\ ~pre[1].rs[0] /\ pre[1].rs[1]
    /\ RowPauli(Arrays(last.o), 0, 0) = "Z"
    /\ RowPauli(Arrays(last.o), 0, 1) = "Z"
    /\ Arrays(last.o).rs[0]

\* C15: when measure(q) takes the anticommuting branch with pivot row p, on
\* return destabilizer row p - n holds the xs, zs and rs that row p had at
\* entry, xs[p-n, q] is true, and every other row i in [0, 2n) has xs[i, q]
\* false.
C15_DestabilizerRewrite ==
    [][(last'.op = "measure"
        /\ \E i \in (obj[last'.o].n)..(2 * obj[last'.o].n - 1) :
               heap[obj[last'.o].xs][i][last'.a])
         => \E t \in {Arrays(last'.o)} : \E u \in {ArraysNext(last'.o)} :
            \E p \in {i \in (t.n)..(2 * t.n - 1) :
                          /\ t.xs[i][last'.a]
                          /\ \A j \in (t.n)..(i - 1) : ~t.xs[j][last'.a]} :
                /\ u.xs[p - t.n] = t.xs[p]
                /\ u.zs[p - t.n] = t.zs[p]
                /\ u.rs[p - t.n] = t.rs[p]
                /\ u.xs[p - t.n][last'.a]
                /\ \A i \in ViewRows(t.n) \ {p - t.n} : ~u.xs[i][last'.a]]_vars

\* An anticommuting measurement of qubit 0 of a 2-qubit tableau with pivot
\* row 3 (now Z_0) left a negative two-qubit operator in destabilizer row 1.
C15_Witness ==
    /\ last.op = "measure"
    /\ last.a = 0
    /\ Len(last.drawn) = 1
    /\ obj[last.o].n = 2
    /\ Arrays(last.o).zs[3][0] /\ ~Arrays(last.o).zs[3][1]
    /\ Arrays(last.o).zs[2][1]
    /\ Arrays(last.o).xs[1][0]
    /\ Arrays(last.o).rs[1]
    /\ Arrays(last.o).xs[1][1] \/ Arrays(last.o).zs[1][1]

\* C16 as stated: every tableau produced from a canonical initial state by
\* rowsum(i, j) calls with i # j, both in [0, 2n), satisfies validate().
C16_RowsumKeepsValid ==
    last.op = "rowsum" => validate(Arrays(last.o))

\* C16 as amended: rowsum(i, j) with j = i + n or j = i - n, both in [0, 2n),
\* leaves a tableau that satisfies validate() satisfying it; so does every
\* sequence of such calls from a canonical initial state.
C16_PartnerRowsumKeepsValid ==
    [][(/\ last'.op = "rowsum"
        /\ last'.a \in ViewRows(obj[last'.o].n)
        /\ last'.b \in ViewRows(obj[last'.o].n)
        /\ (last'.b = last'.a + obj[last'.o].n
              \/ last'.b = last'.a - obj[last'.o].n)
        /\ validate(Arrays(last'.o)))
         => validate(ArraysNext(last'.o))]_vars

\* Three rowsum calls were made on a 2-qubit tableau, the last one
\* rowsum(2, 0), and the tableau is valid with an X on qubit 0 in stabilizer
\* row 2 and a Z on qubit 0 in destabilizer row 0.
C16_Witness ==
    /\ last.op = "rowsum"
    /\ <<last.a, last.b>> = <<2, 0>>
    /\ steps = 3
    /\ obj[last.o].n = 2
    /\ validate(pre[1])
    /\ validate(Arrays(last.o))
    /\ Arrays(last.o).xs[2][0]
    /\ Arrays(last.o).zs[0][0]

\* C17: rowsum(t, s) on rows of the arrays does not raise and changes only
\* row t: every other row of xs, zs and rs (row s and the scratch row
\* included when they are not row t) and n are unchanged.
C17_RowsumFrame ==
    [][last'.op = "rowsum"
         => /\ ~last'.err
            /\ obj' = obj
            /\ DOMAIN heap' = DOMAIN heap
            /\ \A a \in DOMAIN heap :
                   /\ DOMAIN heap'[a] = DOMAIN heap[a]
                   /\ \A i \in DOMAIN heap[a] :
                          (a \in {obj[last'.o].xs, obj[last'.o].zs,
                                  obj[last'.o].rs} /\ i = last'.a)
                            \/ heap'[a][i] = heap[a][i]]_vars

\* rowsum(4, 1) was called on a 2-qubit tableau: the scratch row took the
\* negative two-qubit Pauli operator of row 1, which is still in row 1.
C17_Witness ==
    /\ last.op = "rowsum"
    /\ <<last.a, last.b>> = <<4, 1>>
    /\ obj[last.o].n = 2
    /\ Arrays(last.o).rs[4]
    /\ Arrays(last.o).rs[1]
    /\ \A k \in Qubits(2) : RowPauli(Arrays(last.o), 1, k) # "I"
    /\ \A k \in Qubits(2) :
           RowPauli(Arrays(last.o), 4, k) = RowPauli(Arrays(last.o), 1, k)

C19_ScratchIsZq ==
    [][(last'.op = "measure"
        /\ \A i \in (obj[last'.o].n)..(2 * obj[last'.o].n - 1) :
               ~heap[obj[last'.o].xs][i][last'.a])
         => \E u \in {ArraysNext(last'.o)} :
              \/ /\ \A k \in Qubits(u.n) :
                        ~u.xs[2 * u.n][k] /\ (u.zs[2 * u.n][k] <=> k = last'.a)
                 /\ last'.out = int(u.rs[2 * u.n])
              \/ ~validate(Arrays(last'.o))]_vars

\* A commuting measurement of qubit 1 of a valid 2-qubit tableau returned 1
\* after adding both stabilizer rows, one of them acting on both qubits,
\* into the scratch row, which holds -Z_1.
C19_Witness ==
    /\ last.op = "measure"
    /\ last.drawn = <<>>
    /\ last.a = 1
    /\ last.out = 1
    /\ obj[last.o].n = 2
    /\ validate(Arrays(last.o))
    /\ Arrays(last.o).xs[0][1] /\ Arrays(last.o).xs[1][1]
    /\ \E i \in 2..3 : Arrays(last.o).zs[i][0] /\ Arrays(last.o).zs[i][1]
    /\ Arrays(last.o).rs[4]
    /\ Arrays(last.o).zs[4] = [k \in Qubits(2) |-> k = 1]

\* C20: for distinct rows i and j whose Pauli operators commute, a second
\* rowsum(i, j) right after the first returns rs[i], xs[i] and zs[i] to their
\* values before the first, row j being as it was; so rs[i] can fail to come
\* back only for rows that anticommute.
C20_PhaseRoundTrip ==
    [][(last'.op = "rowsum" /\ last'.again /\ last'.a # last'.b
        /\ RowsCommute(pre[1], last'.a, last'.b))
         => \E u \in {ArraysNext(last'.o)} :
                /\ u.rs[last'.a] = pre[1].rs[last'.a]
                /\ u.xs[last'.a] = pre[1].xs[last'.a]
                /\ u.zs[last'.a] = pre[1].zs[last'.a]
                /\ u.rs[last'.b] = pre[1].rs[last'.b]
                /\ u.xs[last'.b] = pre[1].xs[last'.b]
                /\ u.zs[last'.b] = pre[1].zs[last'.b]]_vars

\* A second rowsum(0, 1) in a row was made on a 2-qubit tableau whose rows 0
\* and 1 are +YX and -XY again; the first call had made row 0 negative.
C20_Witness ==
    /\ last.op = "rowsum"
    /\ last.again
    /\ <<last.a, last.b>> = <<0, 1>>
    /\ obj[last.o].n = 2
    /\ RowsCommute(Arrays(last.o), 0, 1)
    /\ RowPauli(Arrays(last.o), 0, 0) = "Y"
    /\ RowPauli(Arrays(last.o), 0, 1) = "X"
    /\ RowPauli(Arrays(last.o), 1, 0) = "X"
    /\ RowPauli(Arrays(last.o), 1, 1) = "Y"
    /\ Arrays(last.o).rs[1]
    /\ ~Arrays(last.o).rs[0]
    /\ pre[1].rs[0]

====
